---- MODULE Spec2Model ----
(***************************************************************************)
(* A model of intertrait's runtime core (src/src/lib.rs): the distributed  *)
(* slice CASTERS of caster constructors, the lazily built CASTER_MAP, the  *)
(* CastFrom accessors and the CastTo operations ref_to, mut_to, box_to and *)
(* impls, called concurrently from several threads.                        *)
(***************************************************************************)
EXTENDS Naturals, Sequences, FiniteSets, TLC

\* ------------------------------------------------------------------ bounds

\* Number of caller threads.
NumThreads == 2
\* Largest number of constructor functions linked into CASTERS.
MaxCasters == 2

Threads == 1..NumThreads

\* ------------------------------------------------------------------- types

\* A type of the program: a struct, a trait object type or a Caster<dyn _>.
Struct(n) == [k |-> "struct", n |-> n]
Dyn(n) == [k |-> "dyn", n |-> n]
CasterTy(T) == [k |-> "Caster", n |-> T.n]

TestStruct == Struct("TestStruct")
Data == Struct("Data")
DynSourceTrait == Dyn("SourceTrait")
DynAny == Dyn("Any")
DynDebug == Dyn("Debug")
DynDisplay == Dyn("Display")

\* The concrete types values are made of, and the target traits casts name.
Concrete == {TestStruct, Data}
Targets == {DynDebug, DynDisplay}

\* Every type of the program, in a fixed order: a type's TypeId is its place.
TypeTable ==
    << TestStruct, Data, DynSourceTrait, DynAny, DynDebug, DynDisplay,
       CasterTy(DynDebug), CasterTy(DynDisplay) >>

\* TypeId::of::<ty>(): equal exactly for equal types.
TypeIdOf(ty) == CHOOSE i \in 1..Len(TypeTable) : TypeTable[i] = ty

\* ------------------------------------------------------------------ values

\* A value: its identity (the thread that made it) and its concrete type.
Value(id, ty) == [id |-> id, ty |-> ty]

\* A reference (or box) of static type S to a value: S is the value's own
\* type, or a trait object type whose vtable is that of the value's type.
Ref(S, v) == [static |-> S, val |-> v]

\* The static types a value of concrete type ty can be reached through.
StaticTypes(ty) == {ty, DynSourceTrait, DynAny}

\* <S as Any>::type_id(&self): TypeId::of::<S>() for a sized S, and the
\* vtable's entry, that of the value's concrete type, for a trait object.
\* (Fault: TypeId::of::<S>() taken for a trait object too.)
type_id_static(self) == TypeIdOf(self.static)
type_id(self) ==
    IF self.static.k = "struct" THEN TypeIdOf(self.static)
    ELSE TypeIdOf(self.val.ty)

\* CastFrom::ref_any / mut_any / box_any: the blanket impl for sized T
\* (which a trait object of a CastFrom sub-trait dispatches to) coerces self
\* to dyn Any; the impl for dyn Any returns self.
\* (Fault: the impl for dyn Any erases the reference again, so that the
\* view's runtime type is dyn Any itself.)
ref_any_reerased(self) ==
    IF self.static = DynAny THEN Ref(DynAny, Value(self.val.id, DynAny))
    ELSE Ref(DynAny, self.val)
ref_any(self) ==
    IF self.static = DynAny THEN self
    ELSE Ref(DynAny, self.val)
mut_any(self) ==
    IF self.static = DynAny THEN self
    ELSE Ref(DynAny, self.val)
box_any(self) ==
    IF self.static = DynAny THEN self
    ELSE Ref(DynAny, self.val)

\* ----------------------------------------------------------------- casters

\* Option and panic outcomes.
None == [tag |-> "None"]
Some(x) == [tag |-> "Some", x |-> x]
Panic == [tag |-> "Panic"]
Bool(b) == [tag |-> "Bool", b |-> b]

\* A trait object of trait T over a value, by reference, mutable reference
\* or box.
View(mode, T, v) == [mode |-> mode, trait |-> T, val |-> v]

\* A constructor function as generated for (ty, trait) at one registration
\* site: it reports TypeId::of::<ty>() and boxes a Caster<dyn trait> whose
\* three functions, the closures written at that site, downcast to ty.
Entries == [ty : Concrete, trait : Targets, site : 1..MaxCasters]
Construct(f) ==
    [type_id |-> TypeIdOf(f.ty),
     caster  |-> [dynty |-> CasterTy(f.trait), down |-> f.ty, trait |-> f.trait,
                  fns |-> f.site]]

\* (*caster).type_id() on a BoxedCaster: the TypeId of the boxed Caster<T>.
boxed_type_id(b) == TypeIdOf(b.dynty)

\* caster.downcast_ref::<Caster<T>>()
\* (Fault: downcast to T itself, not to Caster<T>.)
downcast_ref_to_target(b, T) == IF boxed_type_id(b) = TypeIdOf(T) THEN Some(b) ELSE None
downcast_ref(b, T) == IF boxed_type_id(b) = TypeIdOf(CasterTy(T)) THEN Some(b) ELSE None

\* The three conversion functions of a caster: downcast, unwrap, coerce.
cast_ref(c, from) ==
    IF type_id(from) = TypeIdOf(c.down) THEN View("ref", c.trait, from.val) ELSE Panic
cast_mut(c, from) ==
    IF type_id(from) = TypeIdOf(c.down) THEN View("mut", c.trait, from.val) ELSE Panic
cast_box(c, from) ==
    IF type_id(from) = TypeIdOf(c.down) THEN View("box", c.trait, from.val) ELSE Panic

\* ---------------------------------------------------------------- registry

\* HashMap: a function from the keys present to their values.
EmptyMap == << >>
\* (Fault: a key already present keeps its value.)
InsertIfAbsent(m, key, v) == [k \in DOMAIN m \cup {key} |-> IF k \in DOMAIN m THEN m[k] ELSE v]
Insert(m, key, v) == [k \in DOMAIN m \cup {key} |-> IF k = key THEN v ELSE m[k]]
\* (Fault: keys compared by their caster-type component alone.)
GetByCasterType(m, key) ==
    LET hits == {k \in DOMAIN m : k[2] = key[2]}
    IN  IF hits = {} THEN None ELSE Some(m[CHOOSE k \in hits : TRUE])
Get(m, key) == IF key \in DOMAIN m THEN Some(m[key]) ELSE None
ContainsKey(m, key) == key \in DOMAIN m

\* let (type_id, caster) = f(): one more call of the constructor function
\* at place i of the slice.
\* (Fault: f called once for each component of the pair.)
CalledForEachComponent(cnt, i) == [cnt EXCEPT ![i] = @ + 2]
Called(cnt, i) == [cnt EXCEPT ![i] = @ + 1]

\* One step of the build closure's iterator: call f, key its caster by
\* (type_id, (*caster).type_id()) and collect it.
\* (Fault: type_id() taken of the Box, one identity for every caster.)
CollectKeyedByBox(m, f) ==
    LET r == Construct(f)
    IN  Insert(m, <<r.type_id, TypeIdOf(DynAny)>>, r.caster)
Collect(m, f) ==
    LET r == Construct(f)
    IN  Insert(m, <<r.type_id, boxed_type_id(r.caster)>>, r.caster)

\* The whole build closure, CASTERS.iter().map(..).collect(): every
\* constructor function's caster collected in slice order.
RECURSIVE BuildFrom(_, _)
BuildFrom(cs, m) ==
    IF cs = << >> THEN m ELSE BuildFrom(Tail(cs), Collect(m, Head(cs)))
BuildAll(cs) == BuildFrom(cs, EmptyMap)

\* The key caster::<T>() and impls::<T>() look up.
\* (Fault: the second component taken from T, not from Caster<T>.)
CasterKeyByTrait(tid, T) == <<tid, TypeIdOf(T)>>
CasterKey(tid, T) == <<tid, TypeIdOf(CasterTy(T))>>

\* caster::<T>(type_id)
\* (Fault: the first key component ignored, any caster to T returned.)
casterAnyType(map, T, tid) ==
    LET hits == {k \in DOMAIN map : k[2] = TypeIdOf(CasterTy(T))}
    IN  IF hits = {} THEN None
        ELSE downcast_ref(map[CHOOSE k \in hits : TRUE], T)
caster(map, T, tid) ==
    LET got == Get(map, CasterKey(tid, T))
    IN  IF got = None THEN None ELSE downcast_ref(got.x, T)

\* -------------------------------------------------------------- operations

Ops == {"ref_to", "mut_to", "box_to", "impls"}

\* What a call leaves behind: its result, the conversion functions it
\* invoked, and where the value's handle is afterwards ("caller": still
\* with the caller, "result": inside the returned box, "dropped").
Outcome(res, invoked, handle) == [res |-> res, invoked |-> invoked, handle |-> handle]

\* (f)(any).into(): Some of what the conversion returns; a panic unwinds.
Into(r) == IF r = Panic THEN Panic ELSE Some(r)

\* CastTo::ref_to::<T>(&self)
ref_to(map, self, T) ==
    LET any == ref_any(self)
        c   == caster(map, T, type_id(any))
    IN  IF c = None THEN Outcome(None, {}, "caller")
        ELSE Outcome(Into(cast_ref(c.x, any)), {"cast_ref"}, "caller")

\* CastTo::mut_to::<T>(&mut self)
\* (Fault: cast_ref invoked in place of cast_mut.)
mut_to_by_cast_ref(map, self, T) ==
    LET any == mut_any(self)
        c   == caster(map, T, type_id(any))
    IN  IF c = None THEN Outcome(None, {}, "caller")
        ELSE Outcome(Into(cast_ref(c.x, any)), {"cast_ref"}, "caller")
mut_to(map, self, T) ==
    LET any == mut_any(self)
        c   == caster(map, T, type_id(any))
    IN  IF c = None THEN Outcome(None, {}, "caller")
        ELSE Outcome(Into(cast_mut(c.x, any)), {"cast_mut"}, "caller")

\* CastTo::box_to::<T>(self: Box<Self>): the box moves into box_any's
\* result; `?` on a miss returns None and drops it, a hit moves it into
\* cast_box, whose result owns the value (a panic there drops it).
box_to(map, self, T) ==
    LET any == box_any(self)
        c   == caster(map, T, type_id(any))
    IN  IF c = None THEN Outcome(None, {}, "dropped")
        ELSE LET r == cast_box(c.x, any)
             IN  Outcome(Into(r), {"cast_box"}, IF r = Panic THEN "dropped" ELSE "result")

\* CastTo::impls::<T>(&self)
\* (Fault: keyed by the static type of self.)
impls_by_static_type(map, self, T) ==
    Outcome(Bool(ContainsKey(map, CasterKey(type_id_static(self), T))), {}, "caller")
impls(map, self, T) ==
    Outcome(Bool(ContainsKey(map, CasterKey(type_id(self), T))), {}, "caller")

\* The call c = [op, self, T] run against the registry map.
Perform(c, map) ==
    CASE c.op = "ref_to" -> ref_to(map, c.self, c.T)
      [] c.op = "mut_to" -> mut_to(map, c.self, c.T)
      [] c.op = "box_to" -> box_to(map, c.self, c.T)
      [] c.op = "impls"  -> impls(map, c.self, c.T)

\* ------------------------------------------------------------------- state

VARIABLES
    CASTERS,     \* the distributed slice: a sequence of constructor functions
    lazy,        \* CASTER_MAP's once-cell state: INCOMPLETE, RUNNING, COMPLETE
    CASTER_MAP,  \* the value stored in the cell (empty until initialised)
    builds,      \* how many times the build closure has run to completion
    pc,          \* per thread: idle, force, build, done, panicked
    call,        \* per thread: the call made [op, self, T]
    out,         \* per thread: the outcome of the finished call
    prev,        \* per thread: the outcome of the same call made before
    acc,         \* per thread: the HashMap its build closure is collecting
    idx,         \* per thread: the closure's position in CASTERS.iter()
    called,      \* per place of CASTERS: how often that constructor was called
    mid,         \* per thread: the casts that came between its call and the repeat
    mx           \* the #[cast_to] expansion under way: its input and output

vars == <<CASTERS, lazy, CASTER_MAP, builds, pc, call, out, prev, acc, idx, called, mid, mx>>

NoCall == [op |-> "-"]
NoOut == [res |-> [tag |-> "-"]]

\* All sequences over S of length at most n.
SeqsUpTo(S, n) == UNION {[1..k -> S] : k \in 0..n}

\* The slices the linker can gather: each element is the constructor of its
\* own registration site.
Slices == {s \in SeqsUpTo(Entries, MaxCasters) : \A i \in 1..Len(s) : s[i].site = i}

\* No macro expansion under way.
NoExpansion == [phase |-> "-"]

Init ==
    /\ CASTERS \in Slices
    /\ lazy = "INCOMPLETE"
    /\ CASTER_MAP = EmptyMap
    /\ builds = 0
    /\ pc = [t \in Threads |-> "idle"]
    /\ call = [t \in Threads |-> NoCall]
    /\ out = [t \in Threads |-> NoOut]
    /\ prev = [t \in Threads |-> NoOut]
    /\ acc = [t \in Threads |-> EmptyMap]
    /\ idx = [t \in Threads |-> 0]
    /\ called = [i \in 1..Len(CASTERS) |-> 0]
    /\ mid = [t \in Threads |-> << >>]
    /\ mx = NoExpansion

\* ----------------------------------------------------------------- actions

\* A thread enters one of the four operations and reaches the deref of
\* CASTER_MAP (in caster::<T>(), or in impls::<T>() itself).
Call(t) ==
    /\ pc[t] = "idle"
    /\ pc' = [pc EXCEPT ![t] = "force"]
    /\ UNCHANGED <<CASTERS, lazy, CASTER_MAP, builds, call, out, prev, acc, idx, called, mid, mx>>

\* Lazy::force: a thread that finds the cell complete reads it; the thread
\* that finds it incomplete claims the initialisation; a thread that finds
\* it running waits.
\* (Fault: a running initialisation taken for a finished one.)
IsInitializedOrRunning(state) == state # "INCOMPLETE"
IsInitialized(state) == state = "COMPLETE"
\* (Faults: a running initialisation claimed again; a complete cell
\* initialised again.)
NeedsInitUnlessComplete(state) == state # "COMPLETE"
NeedsInitUnlessRunning(state) == state # "RUNNING"
\* (Fault: the states mixed up, the claim made only of a cell already running.)
NeedsInitWhenRunning(state) == state = "RUNNING"
NeedsInit(state) == state = "INCOMPLETE"

\* The operation itself, on a complete cell: on a value of some concrete
\* type, through a reference of some static type, to some target. Nothing
\* of the call is visible to another thread before this step, so its
\* arguments are drawn here.
LazyGet(t) ==
    /\ pc[t] = "force"
    /\ IsInitialized(lazy)
    /\ \E ty \in Concrete, op \in Ops, T \in Targets :
         \E S \in StaticTypes(ty) :
           LET c == [op |-> op, self |-> Ref(S, Value(t, ty)), T |-> T]
               o == Perform(c, CASTER_MAP)
           IN  /\ call' = [call EXCEPT ![t] = c]
               /\ out' = [out EXCEPT ![t] = o]
               /\ pc' = [pc EXCEPT ![t] = IF o.res = Panic THEN "panicked" ELSE "done"]
    /\ UNCHANGED <<CASTERS, lazy, CASTER_MAP, builds, prev, acc, idx, called, mid, mx>>

LazyInit(t) ==
    /\ pc[t] = "force"
    /\ NeedsInit(lazy)
    /\ lazy' = "RUNNING"
    /\ pc' = [pc EXCEPT ![t] = "build"]
    /\ acc' = [acc EXCEPT ![t] = EmptyMap]
    /\ idx' = [idx EXCEPT ![t] = 1]
    /\ UNCHANGED <<CASTERS, CASTER_MAP, builds, call, out, prev, called, mid, mx>>

\* The build closure: CASTERS.iter().map(..).collect(), one constructor
\* function per step.
BuildStep(t) ==
    /\ pc[t] = "build"
    /\ idx[t] <= Len(CASTERS)
    /\ acc' = [acc EXCEPT ![t] = Collect(acc[t], CASTERS[idx[t]])]
    /\ idx' = [idx EXCEPT ![t] = idx[t] + 1]
    /\ called' = Called(called, idx[t])
    /\ UNCHANGED <<CASTERS, lazy, CASTER_MAP, builds, pc, call, out, prev, mid, mx>>

\* The closure returns: the cell takes the collected map and is complete;
\* the builder goes on to read it like any other thread.
BuildFinish(t) ==
    /\ pc[t] = "build"
    /\ idx[t] > Len(CASTERS)
    /\ CASTER_MAP' = acc[t]
    /\ lazy' = "COMPLETE"
    /\ builds' = builds + 1
    /\ pc' = [pc EXCEPT ![t] = "force"]
    /\ acc' = [acc EXCEPT ![t] = EmptyMap]
    /\ idx' = [idx EXCEPT ![t] = 0]
    /\ UNCHANGED <<CASTERS, call, out, prev, called, mid, mx>>

\* The casts between a call and its repeat that are kept on record.
MaxBetween == 1

\* The caller makes the same ref_to or impls call again on the same value,
\* keeping the earlier result to compare.
Repeat(t) ==
    /\ pc[t] = "done"
    /\ call[t].op \in {"ref_to", "impls"}
    /\ IsInitialized(lazy)
    /\ LET o == Perform(call[t], CASTER_MAP)
       IN  /\ prev' = [prev EXCEPT ![t] = out[t]]
           /\ out' = [out EXCEPT ![t] = o]
           /\ pc' = [pc EXCEPT ![t] = IF o.res = Panic THEN "panicked" ELSE "done"]
    /\ UNCHANGED <<CASTERS, lazy, CASTER_MAP, builds, call, acc, idx, called, mid, mx>>

\* Thread u holds the result of a cast of a value that thread t owns.
Borrows(u, t) == pc[u] = "done" /\ call[u].self.val.id = t

\* The values thread t can cast between a call and its repeat: the value of
\* the call, and a second value of its own of either type.
BetweenValues(t) == {call[t].self.val} \cup {Value(t + NumThreads, ty) : ty \in Concrete}

\* mid with one more cast on record, as far as the record goes.
Noted(m, kind) == IF Len(m) < MaxBetween THEN Append(m, kind) ELSE m

\* Between its call and the repeat the owner of a value casts again, the
\* result used on the spot: the same value through a reference (a box_to
\* would move it away), or a second value by any of the four operations.
\* mid keeps on record which it was.
Between(t) ==
    /\ Borrows(t, t)
    /\ call[t].op \in {"ref_to", "impls"}
    /\ prev[t] = NoOut
    /\ Len(mid[t]) < MaxBetween
    /\ IsInitialized(lazy)
    /\ \E v \in BetweenValues(t), op \in Ops, T \in Targets :
         \E S \in StaticTypes(v.ty) :
           LET this == v = call[t].self.val
               c == [op |-> op, self |-> Ref(S, v), T |-> T]
               o == Perform(c, CASTER_MAP)
           IN  /\ this => op # "box_to"
               /\ IF o.res = Panic
                  THEN /\ pc' = [pc EXCEPT ![t] = "panicked"]
                       /\ call' = [call EXCEPT ![t] = c]
                       /\ out' = [out EXCEPT ![t] = o]
                       /\ UNCHANGED mid
                  ELSE /\ mid' = [mid EXCEPT ![t] = Noted(@, IF this THEN "this" ELSE "other")]
                       /\ UNCHANGED <<pc, call, out>>
    /\ UNCHANGED <<CASTERS, lazy, CASTER_MAP, builds, prev, acc, idx, called, mx>>

\* A thread casts a value another thread owns, has cast by reference and
\* still holds: the value is shared, so only by reference. When the owner
\* has not repeated its call yet, this cast comes between the two, and mid
\* keeps that on the owner's record.
LazyGetShared(t) ==
    /\ pc[t] = "force"
    /\ IsInitialized(lazy)
    /\ \E u \in Threads \ {t}, op \in {"ref_to", "impls"}, T \in Targets :
         /\ Borrows(u, u)
         /\ call[u].op \in {"ref_to", "impls"}
         /\ \E S \in StaticTypes(call[u].self.val.ty) :
              LET c == [op |-> op, self |-> Ref(S, call[u].self.val), T |-> T]
                  o == Perform(c, CASTER_MAP)
              IN  /\ call' = [call EXCEPT ![t] = c]
                  /\ out' = [out EXCEPT ![t] = o]
                  /\ pc' = [pc EXCEPT ![t] = IF o.res = Panic THEN "panicked" ELSE "done"]
         /\ mid' = [mid EXCEPT ![u] = IF prev[u] = NoOut THEN Noted(@, "shared") ELSE @]
    /\ UNCHANGED <<CASTERS, lazy, CASTER_MAP, builds, prev, acc, idx, called, mx>>

\* The caller is done with the value and the results; a value goes only
\* when no other thread holds a cast of it.
Return(t) ==
    /\ pc[t] = "done"
    /\ \A u \in Threads \ {t} : ~Borrows(u, t)
    /\ pc' = [pc EXCEPT ![t] = "idle"]
    /\ call' = [call EXCEPT ![t] = NoCall]
    /\ out' = [out EXCEPT ![t] = NoOut]
    /\ prev' = [prev EXCEPT ![t] = NoOut]
    /\ mid' = [mid EXCEPT ![t] = << >>]
    /\ UNCHANGED <<CASTERS, lazy, CASTER_MAP, builds, acc, idx, called, mx>>

Next ==
    \E t \in Threads :
        \/ Call(t)
        \/ LazyGet(t)
        \/ LazyInit(t)
        \/ BuildStep(t)
        \/ BuildFinish(t)
        \/ Repeat(t)
        \/ Return(t)

Spec == Init /\ [][Next]_vars

\* The same threads with callers that also cast between a call and its
\* repeat and that share their values.
NextRepeat ==
    \/ Next
    \/ \E t \in Threads : Between(t)
    \/ \E t \in Threads : LazyGetShared(t)

\* The longest slice explored with such callers.
MaxRepeatCasters == 1

InitRepeat == Init /\ Len(CASTERS) <= MaxRepeatCasters

SpecRepeat == InitRepeat /\ [][NextRepeat]_vars

\* A thread inside a call keeps running: it is scheduled again, a thread
\* waiting on the cell is woken when the builder completes it, and every
\* constructor function returns. Whether a caller calls at all, calls again
\* or takes its result away is up to the caller.
InCall(t) == LazyGet(t) \/ LazyInit(t) \/ BuildStep(t) \/ BuildFinish(t)

FairSpec == Spec /\ \A t \in Threads : WF_vars(InCall(t))

\* ------------------------------------------------------ the cast_to macro

\* The longest argument list of an attribute that is explored.
MaxArgs == 2

\* An attribute's argument tokens: trait paths and bracketed flag groups.
PathTok(T) == [tok |-> "path", path |-> T]
BracketTok == [tok |-> "bracket"]
ArgTokens == SeqsUpTo({PathTok(T) : T \in Targets} \cup {BracketTok}, MaxArgs)

\* The items an attribute can sit on: impl blocks (inherent, of a trait, of a
\* negated trait) and type definitions (generic or not, with or without an
\* #[intertrait(crate = ..)] attribute).
ImplTraits == {None} \cup {Some([bang |-> b, path |-> T]) : b \in BOOLEAN, T \in Targets}
ItemImpl == [kind : {"impl"}, self_ty : Concrete, trait_ : ImplTraits]
DeriveInput == [kind : {"type"}, ident : Concrete, generic : BOOLEAN, crate_attr : BOOLEAN]
Items == ItemImpl \cup DeriveInput

\* Emitted tokens.
CompileError(msg) == [kind |-> "compile_error", msg |-> msg]
ParseError == <<CompileError("parse error")>>
NoFlags == {}

\* CastToArgs::parse: no tokens is None, otherwise a comma-separated list
\* of paths; anything that is not a path fails the parse.
ParseCastToArgs(tokens) ==
    IF Len(tokens) = 0 THEN [tag |-> "None"]
    ELSE IF \A i \in 1..Len(tokens) : tokens[i].tok = "path"
         THEN [tag |-> "Traits", paths |-> [i \in 1..Len(tokens) |-> tokens[i].path]]
         ELSE [tag |-> "Err"]

\* generate_caster: a static contributed to CASTERS and the constructor
\* function it points to, for (ty, dyn trait_).
generate_caster(ty, trait_, sync) ==
    <<[kind |-> "caster", ty |-> ty, trait |-> trait_, sync |-> sync]>>

\* item_impl::process: the impl block again, followed by a caster for an
\* impl of a trait and by a compile error for the other two.
\* (Fault: the bang of a negative impl is not looked at.)
item_impl_process_ignoring_bang(flags, input) ==
    <<input>> \o
    (IF input.trait_ = None
     THEN <<CompileError("#[cast_to] should only be on an impl of a trait")>>
     ELSE generate_caster(input.self_ty, input.trait_.x.path, "Sync" \in flags))
item_impl_process(flags, input) ==
    <<input>> \o
    (IF input.trait_ = None
     THEN <<CompileError("#[cast_to] should only be on an impl of a trait")>>
     ELSE IF input.trait_.x.bang
     THEN <<CompileError("#[cast_to] is not for !Trait impl")>>
     ELSE generate_caster(input.self_ty, input.trait_.x.path, "Sync" \in flags))

\* flat_map(generate_caster) over the listed paths.
RECURSIVE CastersFor(_, _, _)
CastersFor(ty, paths, sync) ==
    IF Len(paths) = 0 THEN << >>
    ELSE generate_caster(ty, paths[1], sync) \o CastersFor(ty, Tail(paths), sync)

\* item_type::process: the type definition again, its intertrait attribute
\* taken off, followed by one caster per path, or by a compile error when
\* the type is generic.
item_type_process(flags, paths, input) ==
    <<[input EXCEPT !.crate_attr = FALSE]>> \o
    (IF input.generic
     THEN <<CompileError("#[cast_to(..)] can't be used on a generic type definition")>>
     ELSE CastersFor(input.ident, paths, "Sync" \in flags))

\* cast_to: without arguments the item is parsed as an impl block, with
\* arguments as a type definition; a failed parse leaves only its error.
cast_to(args, input) ==
    LET parsed == ParseCastToArgs(args) IN
        CASE parsed.tag = "Err" -> ParseError
          [] parsed.tag = "None" ->
                IF input.kind = "impl" THEN item_impl_process(NoFlags, input)
                ELSE ParseError
          [] parsed.tag = "Traits" ->
                IF input.kind = "type" THEN item_type_process(NoFlags, parsed.paths, input)
                ELSE ParseError

\* The compiler meets an attribute on an item.
InitMacro ==
    /\ mx \in [phase : {"input"}, args : ArgTokens, input : Items]
    /\ CASTERS = << >>
    /\ lazy = "INCOMPLETE"
    /\ CASTER_MAP = EmptyMap
    /\ builds = 0
    /\ pc = [t \in Threads |-> "idle"]
    /\ call = [t \in Threads |-> NoCall]
    /\ out = [t \in Threads |-> NoOut]
    /\ prev = [t \in Threads |-> NoOut]
    /\ acc = [t \in Threads |-> EmptyMap]
    /\ idx = [t \in Threads |-> 0]
    /\ called = << >>
    /\ mid = [t \in Threads |-> << >>]

\* The compiler runs the macro and takes its output.
Expand ==
    /\ mx.phase = "input"
    /\ mx' = [phase |-> "expanded", args |-> mx.args, input |-> mx.input,
              expanded |-> cast_to(mx.args, mx.input)]
    /\ UNCHANGED <<CASTERS, lazy, CASTER_MAP, builds, pc, call, out, prev, acc, idx, called, mid>>

NextMacro == Expand

SpecMacro == InitMacro /\ [][NextMacro]_vars

\* -------------------------------------------------------------- properties

\* A constructor function for (ty, T) was contributed to CASTERS.
Registered(ty, T) ==
    \E i \in 1..Len(CASTERS) : CASTERS[i].ty = ty /\ CASTERS[i].trait = T

\* Thread t's call has come back (or unwound).
Finished(t) == pc[t] \in {"done", "panicked"}

\* C1: ref_to::<T>() on a value of concrete type C, through any reference,
\* returns Some exactly when a registration entry for (C, T) was contributed
\* to CASTERS, and whenever it returns Some, impls::<T>() on the same
\* reference is true.
C1_RefToIffRegistered ==
    \A t \in Threads :
        (Finished(t) /\ call[t].op = "ref_to") =>
            /\ (out[t].res.tag = "Some") <=> Registered(call[t].self.val.ty, call[t].T)
            /\ (out[t].res.tag = "Some") =>
                   impls(CASTER_MAP, call[t].self, call[t].T).res = Bool(TRUE)

C1_Witness ==
    \E t, u \in Threads :
        /\ pc[t] = "done" /\ call[t].op = "ref_to" /\ out[t].res.tag = "Some"
        /\ call[t].self.static = DynSourceTrait
        /\ pc[u] = "done" /\ call[u].op = "ref_to" /\ out[u].res = None

\* C2: box_to::<T>() with no entry registered for (the value's runtime
\* type, T) hands the original owned handle back to the caller: the value
\* is not dropped by a failed cast.
C2_BoxToMissReturnsHandle ==
    \A t \in Threads :
        (Finished(t) /\ call[t].op = "box_to"
                     /\ ~Registered(call[t].self.val.ty, call[t].T)) =>
            out[t].handle = "caller"

\* C3: under concurrent first access the build closure runs to completion
\* exactly once: at most one thread is ever inside it, no operation finishes
\* before the cell is complete, and every finished operation read the fully
\* built registry, the same for every thread.
C3_BuildExactlyOnce ==
    /\ builds <= 1
    /\ Cardinality({t \in Threads : pc[t] = "build"}) <= 1
    /\ (lazy = "COMPLETE") <=> (builds = 1)
    /\ (lazy = "COMPLETE") => CASTER_MAP = BuildAll(CASTERS)
    /\ \A t \in Threads :
           Finished(t) =>
               /\ lazy = "COMPLETE"
               /\ out[t] = Perform(call[t], BuildAll(CASTERS))

C3_Witness ==
    \E t, u \in Threads :
        /\ t # u
        /\ lazy = "RUNNING"
        /\ pc[t] = "build" /\ idx[t] > 1 /\ idx[t] <= Len(CASTERS)
        /\ pc[u] = "force"

\* C4: impls::<T>() is a pure membership test: a step that answers it (a
\* first call or a repeated one) invokes no conversion function, leaves the
\* registry, the cell state and the value's handle as they were, and
\* answers true exactly when ref_to::<T>() on the same reference would
\* return Some.
C4_ImplsPure ==
    [][\A t \in Threads :
          (pc[t] \in {"force", "done"} /\ pc'[t] \in {"done", "panicked"}
                                       /\ call'[t].op = "impls") =>
              /\ out'[t].invoked = {}
              /\ out'[t].handle = "caller"
              /\ CASTER_MAP' = CASTER_MAP /\ lazy' = lazy /\ builds' = builds
              /\ CASTERS' = CASTERS
              /\ out'[t].res =
                     Bool(ref_to(CASTER_MAP, call'[t].self, call'[t].T).res.tag = "Some")]_vars

C4_Witness ==
    \E t, u \in Threads :
        /\ pc[t] = "done" /\ call[t].op = "impls" /\ out[t].res = Bool(TRUE)
        /\ call[t].self.static = DynSourceTrait
        /\ pc[u] = "done" /\ call[u].op = "impls" /\ out[u].res = Bool(FALSE)

\* C5: once built, the registry is never modified: no step taken after the
\* cell is complete adds, replaces or removes an entry, or leaves the
\* complete state.
C5_RegistryImmutable ==
    [][(lazy = "COMPLETE") => (CASTER_MAP' = CASTER_MAP /\ lazy' = "COMPLETE")]_vars

C5_Witness ==
    \E t, u \in Threads :
        /\ lazy = "COMPLETE" /\ DOMAIN CASTER_MAP # {}
        /\ pc[t] = "done" /\ call[t].op = "box_to" /\ out[t].res.tag = "Some"
        /\ pc[u] = "done" /\ call[u].op = "mut_to" /\ out[u].res = None

\* C6: a failed cast is never a crash: with no entry for (runtime type, T),
\* also when T was never registered for any type, ref_to, mut_to and box_to
\* return None and impls returns false, and none of them panics.
C6_MissNeverCrashes ==
    \A t \in Threads :
        (Finished(t) /\ ~Registered(call[t].self.val.ty, call[t].T)) =>
            /\ pc[t] = "done"
            /\ out[t].res = IF call[t].op = "impls" THEN Bool(FALSE) ELSE None
            /\ out[t].invoked = {}

C6_Witness ==
    \E t, u \in Threads :
        /\ CASTERS # << >>
        /\ pc[t] = "done" /\ call[t].op = "box_to" /\ out[t].res = None
        /\ \A i \in 1..Len(CASTERS) : CASTERS[i].trait # call[t].T
        /\ pc[u] = "done" /\ call[u].op = "ref_to" /\ out[u].res = None
        /\ \E i \in 1..Len(CASTERS) :
               CASTERS[i].trait = call[u].T /\ CASTERS[i].ty # call[u].self.val.ty

\* C7: mut_to::<T>() and box_to::<T>() succeed under exactly the condition
\* under which ref_to::<T>() does, and each returns what its own conversion
\* function (cast_mut, cast_box, cast_ref) of the caster makes of the value.
C7_SameSuccessCondition ==
    \A t \in Threads :
        (Finished(t) /\ call[t].op \in {"ref_to", "mut_to", "box_to"}) =>
            LET hit  == ref_to(CASTER_MAP, call[t].self, call[t].T).res.tag = "Some"
                conv == CASE call[t].op = "ref_to" -> "cast_ref"
                          [] call[t].op = "mut_to" -> "cast_mut"
                          [] call[t].op = "box_to" -> "cast_box"
                mode == CASE call[t].op = "ref_to" -> "ref"
                          [] call[t].op = "mut_to" -> "mut"
                          [] call[t].op = "box_to" -> "box"
            IN  /\ (out[t].res.tag = "Some") <=> hit
                /\ hit => /\ out[t].invoked = {conv}
                          /\ out[t].res.x.mode = mode
                /\ ~hit => /\ out[t].res = None
                           /\ out[t].invoked = {}

C7_Witness ==
    \E t, u \in Threads :
        /\ pc[t] = "done" /\ call[t].op = "mut_to" /\ out[t].res.tag = "Some"
        /\ pc[u] = "done" /\ call[u].op = "box_to" /\ out[u].res.tag = "Some"

\* The call c made through a reference of static type S to the same value.
Through(c, S) == [c EXCEPT !.self = Ref(S, c.self.val)]

\* C8: a call made through an already erased reference (&dyn Any,
\* &mut dyn Any, Box<dyn Any>) has the outcome the same call has through a
\* typed reference (the concrete type itself, or dyn SourceTrait) to the
\* same value, for each of ref_to, mut_to, box_to and impls.
C8_AnySameAsTyped ==
    \A t \in Threads :
        (Finished(t) /\ call[t].self.static = DynAny) =>
            /\ out[t] = Perform(Through(call[t], call[t].self.val.ty), CASTER_MAP)
            /\ out[t] = Perform(Through(call[t], DynSourceTrait), CASTER_MAP)

C8_Witness ==
    \E t, u \in Threads :
        /\ pc[t] = "done" /\ call[t].self.static = DynAny
        /\ call[t].op = "ref_to" /\ out[t].res.tag = "Some"
        /\ pc[u] = "done" /\ call[u].self.static = DynAny
        /\ call[u].op = "impls" /\ out[u].res = Bool(FALSE)

\* C9: the registry key is the identity of the value's concrete type, not
\* of the interface the method is called through: ref_to::<T>() through the
\* unrelated interface dyn SourceTrait on a value of a type registered for T
\* looked up the concrete type's TypeId and returns a view, as T, of that
\* same value.
C9_KeyIsConcreteType ==
    \A t \in Threads :
        (Finished(t) /\ call[t].op = "ref_to" /\ call[t].self.static = DynSourceTrait
                     /\ Registered(call[t].self.val.ty, call[t].T)) =>
            /\ out[t].res = Some(View("ref", call[t].T, call[t].self.val))
            /\ out[t].res.x.val.ty \in Concrete
            /\ CasterKey(TypeIdOf(call[t].self.val.ty), call[t].T) \in DOMAIN CASTER_MAP
            /\ CasterKey(TypeIdOf(DynSourceTrait), call[t].T) \notin DOMAIN CASTER_MAP

C9_Witness ==
    \E t \in Threads :
        /\ pc[t] = "done" /\ call[t].op = "ref_to"
        /\ call[t].self = Ref(DynSourceTrait, Value(t, Data))
        /\ out[t].res = Some(View("ref", DynDebug, Value(t, Data)))

\* C10: a ref_to::<T>() or impls::<T>() call made again on the same
\* unchanged value returns what it returned before, whatever was cast in
\* between: by the same thread on this value or on another one, by another
\* thread on this value, shared with it, or on values of its own.
C10_Idempotent ==
    \A t \in Threads :
        (Finished(t) /\ prev[t] # NoOut) => out[t] = prev[t]

C10_Witness ==
    \E t, u \in Threads :
        /\ pc[t] = "done" /\ call[t].op = "ref_to" /\ Borrows(t, t)
        /\ mid[t] = <<"this">>
        /\ prev[t] # NoOut /\ out[t].res.tag = "Some"
        /\ pc[u] = "done" /\ call[u].op = "impls" /\ Borrows(u, t)
        /\ call[u].self.val = call[t].self.val
        /\ prev[u] # NoOut /\ out[u].res = Bool(FALSE)

\* C11: the build calls every constructor function of CASTERS exactly once:
\* none before the build starts, those the builder's iterator has passed
\* while it runs, all of them once it is complete, and no later step of any
\* thread (a cast, a repeated cast, a return) calls one again.
C11_ConstructorsCalledOnce ==
    /\ \A i \in 1..Len(CASTERS) : called[i] <= 1
    /\ lazy = "INCOMPLETE" => \A i \in 1..Len(CASTERS) : called[i] = 0
    /\ lazy = "RUNNING" =>
           \E t \in Threads :
               /\ pc[t] = "build"
               /\ \A i \in 1..Len(CASTERS) : called[i] = (IF i < idx[t] THEN 1 ELSE 0)
    /\ lazy = "COMPLETE" =>
           /\ builds = 1
           /\ \A i \in 1..Len(CASTERS) : called[i] = 1

C11_Witness ==
    /\ lazy = "COMPLETE"
    /\ Len(CASTERS) = MaxCasters
    /\ \A i \in 1..Len(CASTERS) : called[i] = 1
    /\ \E t, u \in Threads :
           /\ t # u
           /\ pc[t] = "done" /\ call[t].op = "box_to" /\ out[t].res.tag = "Some"
           /\ pc[u] = "done" /\ call[u].op = "ref_to" /\ prev[u] # NoOut

\* C12: #[cast_to] without arguments emits a registration entry exactly
\* when it sits on an impl of a trait that is not negated; on an inherent
\* impl and on an impl of a negated trait it emits a compile error and no
\* registration entry; and in each of the three the impl block comes out
\* first and unchanged.
Casters(ts) == {i \in 1..Len(ts) : ts[i].kind = "caster"}
Errors(ts) == {i \in 1..Len(ts) : ts[i].kind = "compile_error"}

C12_CastToOnImpl ==
    (mx.phase = "expanded" /\ Len(mx.args) = 0) =>
        LET input == mx.input
            ts == mx.expanded
            positive == input.kind = "impl" /\ input.trait_ # None /\ ~input.trait_.x.bang
        IN  /\ (Casters(ts) # {}) <=> positive
            /\ positive =>
                   /\ Len(ts) = 2 /\ ts[1] = input
                   /\ ts[2].kind = "caster"
                   /\ ts[2].ty = input.self_ty /\ ts[2].trait = input.trait_.x.path
            /\ (input.kind = "impl" /\ ~positive) =>
                   /\ Len(ts) = 2 /\ ts[1] = input
                   /\ Errors(ts) = {2}

C12_Witness ==
    /\ mx.phase = "expanded" /\ Len(mx.args) = 0
    /\ mx.input = [kind |-> "impl", self_ty |-> Data,
                   trait_ |-> Some([bang |-> TRUE, path |-> DynDisplay])]
    /\ mx.expanded = <<mx.input, CompileError("#[cast_to] is not for !Trait impl")>>

\* C13: a conversion function is invoked only on a value whose runtime
\* type is the concrete-type component of a key the registry holds; and when
\* every constructor function reports the type its conversion functions
\* downcast to, the caster under that key downcasts to the value's type, the
\* conversion yields the same value, a registry hit is never None and no
\* call panics.
WellFormed ==
    \A i \in 1..Len(CASTERS) :
        Construct(CASTERS[i]).type_id = TypeIdOf(Construct(CASTERS[i]).caster.down)

C13_ConversionOnKeyedType ==
    \A t \in Threads :
        Finished(t) =>
            LET k == CasterKey(TypeIdOf(call[t].self.val.ty), call[t].T)
            IN  /\ out[t].invoked # {} =>
                       /\ k \in DOMAIN CASTER_MAP
                       /\ WellFormed =>
                              /\ TypeIdOf(CASTER_MAP[k].down) = k[1]
                              /\ out[t].res.tag = "Some"
                              /\ out[t].res.x.val = call[t].self.val
                /\ (WellFormed /\ call[t].op # "impls" /\ k \in DOMAIN CASTER_MAP) =>
                       out[t].res.tag = "Some"
                /\ WellFormed => pc[t] # "panicked"

C13_Witness ==
    /\ WellFormed
    /\ CASTERS = <<[ty |-> TestStruct, trait |-> DynDebug, site |-> 1],
                   [ty |-> Data, trait |-> DynDebug, site |-> 2]>>
    /\ \E t, u \in Threads :
           /\ pc[t] = "done" /\ call[t].op = "box_to"
           /\ call[t].self = Ref(DynAny, Value(t, Data))
           /\ out[t] = Outcome(Some(View("box", DynDebug, Value(t, Data))), {"cast_box"}, "result")
           /\ pc[u] = "done" /\ call[u].op = "mut_to"
           /\ call[u].self.val.ty = TestStruct
           /\ out[u].invoked = {"cast_mut"}

\* The key the build files an entry's caster under.
EntryKey(f) == <<Construct(f).type_id, boxed_type_id(Construct(f).caster)>>

\* The entries' keys are pairwise distinct.
DistinctKeys(cs) ==
    \A i, j \in 1..Len(cs) : EntryKey(cs[i]) = EntryKey(cs[j]) => i = j

\* The orders in which the slice's elements can be laid out and iterated.
Orders(cs) ==
    {[i \in 1..Len(cs) |-> cs[p[i]]] :
        p \in {q \in [1..Len(cs) -> 1..Len(cs)] :
                  \A i, j \in 1..Len(cs) : q[i] = q[j] => i = j}}

\* C14: when the entries' keys are pairwise distinct, the registry the build
\* completed is the one every iteration order of the entries builds, and it
\* holds exactly one key per entry.
C14_OrderIndependent ==
    (lazy = "COMPLETE" /\ DistinctKeys(CASTERS)) =>
        /\ \A cs \in Orders(CASTERS) : BuildAll(cs) = CASTER_MAP
        /\ Cardinality(DOMAIN CASTER_MAP) = Len(CASTERS)
        /\ \A i \in 1..Len(CASTERS) : EntryKey(CASTERS[i]) \in DOMAIN CASTER_MAP

C14_Witness ==
    /\ lazy = "COMPLETE"
    /\ CASTERS = <<[ty |-> Data, trait |-> DynDebug, site |-> 1],
                   [ty |-> Data, trait |-> DynDisplay, site |-> 2]>>
    /\ DistinctKeys(CASTERS)
    /\ Cardinality(Orders(CASTERS)) = 2
    /\ CASTER_MAP = BuildAll(<<CASTERS[2], CASTERS[1]>>)
    /\ Cardinality(DOMAIN CASTER_MAP) = 2

\* C15: no thread stays inside a call for ever, also not one that entered
\* while another thread was building the registry, and a thread leaves a
\* call only by its return (or unwinding); and a call that came back
\* invoked at most one conversion function, its own, and none at all for
\* impls or on a miss.
OwnConversion(op) ==
    CASE op = "ref_to" -> {"cast_ref"}
      [] op = "mut_to" -> {"cast_mut"}
      [] op = "box_to" -> {"cast_box"}
      [] op = "impls"  -> {}

C15_CallsTerminate ==
    /\ \A t \in Threads : []<>(pc[t] \notin {"force", "build"})
    /\ [][\A t \in Threads :
            (pc[t] \in {"force", "build"} /\ pc'[t] \notin {"force", "build"}) =>
                pc'[t] \in {"done", "panicked"}]_vars
    /\ [](\A t \in Threads :
            Finished(t) =>
                /\ Cardinality(out[t].invoked) <= 1
                /\ out[t].invoked \subseteq OwnConversion(call[t].op)
                /\ out[t].res = None => out[t].invoked = {})

C15_Witness ==
    \E t, u \in Threads :
        /\ pc[t] = "build" /\ idx[t] = 2
        /\ pc[u] = "force" /\ lazy = "RUNNING"
        /\ prev[u] = NoOut /\ out[u] = NoOut

\* The place of the last entry of the slice filed under key k.
LastWith(k) ==
    CHOOSE i \in 1..Len(CASTERS) :
        /\ EntryKey(CASTERS[i]) = k
        /\ \A j \in 1..Len(CASTERS) : EntryKey(CASTERS[j]) = k => j <= i

\* C16: entries with the same key do not fail the build: the completed
\* registry holds one key per distinct entry key, under each the caster of
\* the entry iterated last, and a cast for a registered pair still succeeds
\* on the same value.
C16_DuplicateKeyLastWins ==
    lazy = "COMPLETE" =>
        /\ DOMAIN CASTER_MAP = {EntryKey(CASTERS[i]) : i \in 1..Len(CASTERS)}
        /\ \A k \in DOMAIN CASTER_MAP :
               CASTER_MAP[k] = Construct(CASTERS[LastWith(k)]).caster
        /\ \A t \in Threads :
               (Finished(t) /\ Registered(call[t].self.val.ty, call[t].T)) =>
                   /\ pc[t] = "done"
                   /\ call[t].op = "impls" => out[t].res = Bool(TRUE)
                   /\ call[t].op # "impls" =>
                          /\ out[t].res.tag = "Some"
                          /\ out[t].res.x.val = call[t].self.val
                          /\ out[t].res.x.trait = call[t].T

C16_Witness ==
    /\ lazy = "COMPLETE"
    /\ CASTERS = <<[ty |-> Data, trait |-> DynDebug, site |-> 1],
                   [ty |-> Data, trait |-> DynDebug, site |-> 2]>>
    /\ Cardinality(DOMAIN CASTER_MAP) = 1
    /\ CASTER_MAP[CasterKey(TypeIdOf(Data), DynDebug)].fns = 2
    /\ \E t \in Threads :
           /\ pc[t] = "done" /\ call[t].op = "ref_to"
           /\ call[t].self.val.ty = Data /\ call[t].T = DynDebug
           /\ out[t].res.tag = "Some"

\* The registry as any thread can hold it: the cell's map and the maps being
\* collected.
RegistryStates == {CASTER_MAP} \cup {acc[t] : t \in Threads}

\* C17: in every registry state the caster stored under key (c, d) has
\* dynamic type identity d, and caster::<T>(c) is non-empty exactly when the
\* map contains the key (c, identity of Caster<T>), returning the caster
\* stored there.
C17_KeyMatchesCasterType ==
    \A m \in RegistryStates :
        /\ \A k \in DOMAIN m : boxed_type_id(m[k]) = k[2]
        /\ \A c \in Concrete, T \in Targets :
               /\ (caster(m, T, TypeIdOf(c)) # None) <=>
                      ContainsKey(m, CasterKey(TypeIdOf(c), T))
               /\ ContainsKey(m, CasterKey(TypeIdOf(c), T)) =>
                      caster(m, T, TypeIdOf(c)) = Some(m[CasterKey(TypeIdOf(c), T)])

C17_Witness ==
    /\ lazy = "COMPLETE"
    /\ Cardinality(DOMAIN CASTER_MAP) = 2
    /\ caster(CASTER_MAP, DynDebug, TypeIdOf(Data)) # None
    /\ caster(CASTER_MAP, DynDisplay, TypeIdOf(Data)) = None
    /\ ~ContainsKey(CASTER_MAP, CasterKey(TypeIdOf(Data), DynDisplay))
    /\ \E t \in Threads :
           /\ pc[t] = "done" /\ call[t].op = "mut_to"
           /\ call[t].self.val.ty = Data /\ call[t].T = DynDebug
           /\ out[t].res.tag = "Some"

====
